---- MODULE Spec2Model ----
(***************************************************************************)
(* Detection, remediation and evidence engines of the compliance platform  *)
(* (backend/app/services), over the tables cloud_accounts, control_results *)
(* and audit_logs, a small cloud estate and the evidence bucket.           *)
(*                                                                         *)
(* Each request runs in a handler with its own database session.  A        *)
(* handler's step runs from one suspension point to the next: every        *)
(* `await self.db.commit()` is one step, and it either commits or raises.  *)
(* The sessions are those of tests/conftest.py (expire_on_commit=False): a *)
(* failed commit rolls the session back, so the pending rows and the       *)
(* pending attribute changes are lost.  No handler calls rollback(): the   *)
(* session then either accepts further commits or refuses them all.        *)
(***************************************************************************)
EXTENDS Integers, Sequences, FiniteSets, TLC

VARIABLES
    cloud_accounts,   \* table cloud_accounts: id -> row
    control_results,  \* table control_results: sequence of rows, id = position
    audit_logs,       \* table audit_logs: sequence of rows, id = position
    cloud,            \* the AWS estate the adapter reads and mutates
    handlers,         \* request handlers: position in scan_account / remediate_finding / rollback_remediation
    scans,            \* history: one record per scan that obtained a scan_id
    evidence_bucket,  \* the objects of the evidence bucket (settings.EVIDENCE_BUCKET_NAME)
    clock,            \* datetime.utcnow() / func.now()
    budget            \* what the environment may still do: calls (in all, per operation), faults

vars == <<cloud_accounts, control_results, audit_logs, cloud, evidence_bucket, handlers, scans, clock, budget>>

(***************************************************************************)
(* Bounds of the model.                                                    *)
(***************************************************************************)
MaxCalls == 3
MaxScans == 2
MaxRemediations == 2
MaxRollbacks == 1
MaxFaults == 1
MaxScores == 1
MaxExports == 1
MaxCancels == 1
MaxEvidence == 2
EvidenceCalls == 3
CancelCalls == 2
ConcCalls == 3
ConcFaults == 0
MaxOpenPerms == 2

\* Request handlers; a specification starts with one or with both of them.
Handlers == {1, 2}

(***************************************************************************)
(* Values.                                                                 *)
(***************************************************************************)
None == "None"
NoTime == 0
NoId == 0
EmptyDict == [k \in {} |-> ""]
NoneJson == [None |-> "None"]

\* Python truthiness of an Optional[dict] and of an Optional[str].
Truthy(v) == v # NoneJson /\ v # EmptyDict
TruthyStr(s) == s # None /\ s # ""

(***************************************************************************)
(* The control registry.  Four of the registered controls are modelled,    *)
(* in their registry order; each stands for the controls of its shape:     *)
(*   AWS-IAM-001  detect may raise, no remediate                           *)
(*   AWS-S3-001   detect may raise, remediate implemented                  *)
(*   AWS-SG-001   detect appends one finding per open permission           *)
(*   AWS-RDS-001  detect swallows every exception, no remediate            *)
(***************************************************************************)
AWS_CONTROLS == <<"AWS-IAM-001", "AWS-S3-001", "AWS-SG-001", "AWS-RDS-001">>

ControlFinding(status, resource_id, resource_type, finding_details, evidence) ==
    [status |-> status, resource_id |-> resource_id, resource_type |-> resource_type,
     finding_details |-> finding_details, evidence |-> evidence]

\* `finding` is None in _save_result.
NoFinding == ControlFinding(None, None, None, EmptyDict, EmptyDict)

\* What a detect call gives: a list of findings, or an exception with its str().
Returned(findings) == [raised |-> FALSE, msg |-> None, findings |-> findings]
Raised(msg) == [raised |-> TRUE, msg |-> msg, findings |-> <<>>]

\* The outcome of one adapter call: "ok", or the str() of the exception it raises.
AdapterOutcomes == {"ok", "AccessDenied", ""}

RECURSIVE Concat(_)
Concat(ss) == IF ss = <<>> THEN <<>> ELSE Head(ss) \o Concat(Tail(ss))

IAMMFAControl_detect(c, fault) ==
    IF fault # "ok" THEN Raised(fault)
    ELSE Returned(Concat([i \in 1..Len(c.users) |->
            IF c.users[i].mfa THEN <<>>
            ELSE <<ControlFinding("FAIL", c.users[i].arn, "IAM::User",
                                  [user |-> c.users[i].name], [user |-> c.users[i].name])>>]))

S3PublicAccessControl_detect(c, fault) ==
    IF fault # "ok" THEN Raised(fault)
    ELSE Returned(Concat([i \in 1..Len(c.buckets) |->
            IF c.buckets[i].blocked THEN <<>>
            ELSE <<ControlFinding("FAIL", c.buckets[i].arn, "S3::Bucket",
                                  [bucket |-> c.buckets[i].name], [bucket |-> c.buckets[i].name])>>]))

SecurityGroupControl_detect(c, fault) ==
    IF fault # "ok" THEN Raised(fault)
    ELSE Returned(Concat([i \in 1..Len(c.security_groups) |->
            [p \in 1..c.security_groups[i].open_perms |->
                ControlFinding("FAIL", c.security_groups[i].id, "SecurityGroup",
                               [group |-> c.security_groups[i].id],
                               [group |-> c.security_groups[i].id])]]))

RDSEncryptionControl_detect(c, fault) ==
    IF fault # "ok" THEN Returned(<<>>)
    ELSE Returned(Concat([i \in 1..Len(c.db_instances) |->
            IF c.db_instances[i].encrypted THEN <<>>
            ELSE <<ControlFinding("FAIL", c.db_instances[i].arn, "RDS::DB",
                                  [db |-> c.db_instances[i].name], EmptyDict)>>]))

Detect(control_id, c, fault) ==
    CASE control_id = "AWS-IAM-001" -> IAMMFAControl_detect(c, fault)
      [] control_id = "AWS-S3-001"  -> S3PublicAccessControl_detect(c, fault)
      [] control_id = "AWS-SG-001"  -> SecurityGroupControl_detect(c, fault)
      [] control_id = "AWS-RDS-001" -> RDSEncryptionControl_detect(c, fault)

ControlSeverity(control_id) ==
    CASE control_id = "AWS-IAM-001" -> "critical"
      [] control_id = "AWS-S3-001"  -> "critical"
      [] control_id = "AWS-SG-001"  -> "critical"
      [] control_id = "AWS-RDS-001" -> "high"

(***************************************************************************)
(* Rows.                                                                   *)
(***************************************************************************)
\* ControlResult(...) as _save_result builds it; the columns it does not set
\* take their defaults (NULL, or dict for remediation_details).
NewControlResult(id, account_id, control_id, finding, status, scan_id, error_msg, now) ==
    [id |-> id,
     cloud_account_id |-> account_id,
     control_id |-> control_id,
     status |-> status,
     risk_level |-> ControlSeverity(control_id),
     resource_id |-> IF finding # NoFinding THEN finding.resource_id ELSE None,
     resource_type |-> IF finding # NoFinding THEN finding.resource_type ELSE None,
     finding_details |-> IF finding # NoFinding THEN finding.finding_details
                         ELSE IF TruthyStr(error_msg) THEN [error |-> error_msg]
                         ELSE EmptyDict,
     evidence_before |-> IF finding # NoFinding THEN finding.evidence ELSE EmptyDict,
     evidence_after |-> NoneJson,
     remediation_status |-> None,
     remediation_approved_by |-> None,
     remediation_executed_at |-> NoTime,
     remediation_details |-> EmptyDict,
     rollback_data |-> NoneJson,
     scan_id |-> scan_id,
     detected_at |-> now,
     resolved_at |-> NoTime]

\* AuditLog(...) as the two _log_audit methods build it.
NewAuditLog(id, now, event_type, actor, account_id, organization_id, control_id, resource_id, control_result_id, event_data, before_state, after_state, success, error_message) ==
    [id |-> id,
     timestamp |-> now,
     event_type |-> event_type,
     actor |-> actor,
     cloud_account_id |-> account_id,
     organization_id |-> organization_id,
     control_id |-> control_id,
     resource_id |-> resource_id,
     control_result_id |-> control_result_id,
     event_data |-> event_data,
     before_state |-> before_state,
     after_state |-> after_state,
     success |-> success,
     error_message |-> error_message]

\* An audit write that replaces the newest entry.
AuditAdd_Overwrites(logs, log) ==
    IF logs = <<>> THEN <<log>> ELSE [logs EXCEPT ![Len(logs)] = log]

\* self.db.add(log) and the commit that follows it in both _log_audit methods: one
\* INSERT; no statement of the engines updates or deletes a row of audit_logs.
AuditAdd(logs, log) == Append(logs, log)

\* DetectionEngine._log_audit: actor "system", success "success", and only the
\* keyword arguments the caller passes.
DetectionLogAudit(id, now, event_type, account_id, organization_id, control_id, resource_id, event_data) ==
    NewAuditLog(id, now, event_type, "system", account_id, organization_id, control_id,
                resource_id, NoId, event_data, NoneJson, NoneJson, "success", None)

(***************************************************************************)
(* Handlers.                                                               *)
(***************************************************************************)
NoResponse == [op |-> "none", kind |-> "none"]

\* scalar_one_or_none() found no row.
NoRecord == [id |-> NoId, status |-> None, remediation_status |-> None,
             rollback_data |-> NoneJson]

\* base.RemediationResult
RemediationResult(success, resource_id, before_state, after_state, rollback_data, error_message) ==
    [success |-> success, resource_id |-> resource_id, before_state |-> before_state,
     after_state |-> after_state, rollback_data |-> rollback_data,
     error_message |-> error_message]

NoResult == RemediationResult(FALSE, None, NoneJson, NoneJson, NoneJson, None)

\* History: the finding rows and the sizes of the audit log and of the provider's
\* mutation log when a remediate_finding or rollback_remediation call began.
Began(findings, n_audit_logs, n_mutations) ==
    [findings |-> findings, audit_logs |-> n_audit_logs, mutations |-> n_mutations]
NoBegan == Began(<<>>, 0, 0)

IdleHandler ==
    [pc |-> "idle",
     account_id |-> NoId, scan_id |-> NoId,
     controls |-> <<>>, idx |-> 0,
     queue |-> <<>>, saved |-> NoFinding, saved_status |-> None, in_except |-> FALSE,
     pass_count |-> 0, fail_count |-> 0, error_count |-> 0, total_findings |-> 0,
     finding_id |-> NoId, finding_record |-> NoRecord,
     dry_run |-> FALSE, actor |-> None, result |-> NoResult,
     began |-> NoBegan, session |-> "active",
     response |-> NoResponse]

\* One pending _save_result call.
SaveCall(finding, status, error_msg) ==
    [finding |-> finding, status |-> status, error_msg |-> error_msg]

\* The database either commits or raises, an adapter call returns or raises; the
\* number of injected faults is bounded. The engines never call rollback(): after a
\* commit that raised, the call's session either begins a new transaction on its next
\* use or stays in its failed transaction, where every later commit raises as well.
CommitOutcomes(s) ==
    IF s.session = "failed" THEN {FALSE}
    ELSE IF budget.faults > 0 THEN {TRUE, FALSE} ELSE {TRUE}
SessionBreaks(ok) == IF ok THEN {FALSE} ELSE {TRUE, FALSE}
CommitCost(s, ok) == IF ok \/ s.session = "failed" THEN 0 ELSE 1
WithSession(s, broken) == IF broken THEN [s EXCEPT !.session = "failed"] ELSE s
AdapterFaults == IF budget.faults > 0 THEN AdapterOutcomes ELSE {"ok"}

DbErrorMsg == "OperationalError"

\* The faults one step injects: an adapter call that raises, a commit that raises.
Faults(fault, ok) == (IF fault = "ok" THEN 0 ELSE 1) + (IF ok THEN 0 ELSE 1)

\* A filter applied without the `if control_ids:` test.
FilterControls_Always(controls, control_ids) ==
    SelectSeq(controls, LAMBDA c : c \in control_ids)

\* Lines 61-63: `if control_ids:` keeps the registered controls named in the filter.
FilterControls(controls, control_ids) ==
    IF control_ids = {} THEN controls
    ELSE SelectSeq(controls, LAMBDA c : c \in control_ids)

\* The filters a caller passes: none, one control, a control and an unknown id.
ControlIdFilters == {{}, {"AWS-S3-001"}, {"AWS-SG-001", "AWS-XX-999"}}

ScanAccountIds == {1, 2, 3, 4, 5}

RaisedResponse(op, error) == [op |-> op, kind |-> "raised", error |-> error]

Summary(total_controls, pass, fail, error, total_findings) ==
    [total_controls |-> total_controls, pass |-> pass, fail |-> fail, error |-> error,
     total_findings |-> total_findings]

(***************************************************************************)
(* DetectionEngine.scan_account                                            *)
(***************************************************************************)
\* Lines 51-59: the adapter and the controls of the account's provider.
\* AWSClient.__init__ swallows every error of _create_session; AzureClient.__init__
\* raises KeyError when the credentials lack a key it reads.
ClientConstructs(account) ==
    \/ account.provider = "aws"
    \/ account.provider = "azure" /\ account.credentials_ok

ProviderControls(account) ==
    IF account.provider = "aws" THEN AWS_CONTROLS ELSE <<>>

\* Lines 36-63: load the account, commit in_progress, build the adapter, select the controls.
ScanStart(h, account_id, control_ids) ==
    /\ h \in DOMAIN handlers
    /\ handlers[h].pc = "idle"
    /\ \A g \in DOMAIN handlers : g < h => handlers[g].pc # "idle"
    /\ budget.calls > 0 /\ budget.scan > 0
    /\ IF account_id \notin DOMAIN cloud_accounts
       THEN /\ handlers' = [handlers EXCEPT ![h] =
                    [IdleHandler EXCEPT !.response = RaisedResponse("scan", "ValueError")]]
            /\ budget' = [budget EXCEPT !.calls = @ - 1, !.scan = @ - 1]
            /\ UNCHANGED <<cloud_accounts, scans, clock>>
       ELSE \E ok \in CommitOutcomes(IdleHandler) : \E broken \in SessionBreaks(ok) :
            LET account == cloud_accounts[account_id]
                controls == FilterControls(ProviderControls(account), control_ids)
                next_pc == IF ~ok \/ ~ClientConstructs(account) THEN "abort"
                           ELSE IF controls = <<>> THEN "finish"
                           ELSE "detect"
            IN
            /\ budget' = [budget EXCEPT !.calls = @ - 1, !.scan = @ - 1,
                                        !.faults = @ - CommitCost(IdleHandler, ok)]
            /\ cloud_accounts' = IF ok
                                 THEN [cloud_accounts EXCEPT ![account_id].last_scan_status = "in_progress"]
                                 ELSE cloud_accounts
            /\ handlers' = [handlers EXCEPT ![h] =
                    [IdleHandler EXCEPT !.pc = next_pc,
                                        !.account_id = account_id,
                                        !.scan_id = Len(scans) + 1,
                                        !.controls = IF next_pc = "abort" THEN <<>> ELSE controls,
                                        !.idx = 1,
                                        !.session = IF broken THEN "failed" ELSE "active"]]
            /\ scans' = Append(scans,
                    [account_id |-> account_id, started_at |-> clock, status |-> "running",
                     controls |-> IF next_pc = "abort" THEN <<>> ELSE controls,
                     control_ids |-> IF next_pc = "abort" THEN {} ELSE control_ids,
                     selected |-> next_pc # "abort",
                     detected |-> <<>>, db_failed |-> ~ok, loop_done |-> FALSE,
                     cancelled |-> FALSE,
                     summary |-> Summary(0, 0, 0, 0, 0)])
            /\ clock' = clock + 1
    /\ UNCHANGED <<control_results, audit_logs, cloud, evidence_bucket>>

\* The per-control handler left out: the exception leaves the loop at once.
ControlExcept_Propagates(s, msg) ==
    [s EXCEPT !.pc = "abort", !.queue = <<>>]

\* A per-control handler whose error counter is the position of the control in the run.
ControlExcept_ByPosition(s, msg) ==
    IF s.in_except
    THEN [s EXCEPT !.pc = "abort", !.queue = <<>>]
    ELSE [s EXCEPT !.pc = "save", !.error_count = s.idx, !.in_except = TRUE,
                   !.queue = <<SaveCall(NoFinding, "ERROR", msg)>>]

\* An exception inside the loop body: the per-control handler (lines 85-88) takes it
\* once; raised from the handler's own _save_result it leaves the loop (line 127).
ControlExcept(s, msg) ==
    IF s.in_except
    THEN [s EXCEPT !.pc = "abort", !.queue = <<>>]
    ELSE [s EXCEPT !.pc = "save", !.error_count = @ + 1, !.in_except = TRUE,
                   !.queue = <<SaveCall(NoFinding, "ERROR", msg)>>]

\* Lines 69-88 up to the first _save_result: detect and the branch on its result.
ScanDetect(h) ==
    LET s == handlers[h]
        control_id == s.controls[s.idx]
    IN
    /\ h \in DOMAIN handlers
    /\ s.pc = "detect"
    /\ \E fault \in AdapterFaults :
        LET r == Detect(control_id, cloud, fault)
            n == Len(r.findings)
        IN
        /\ budget' = [budget EXCEPT !.faults = @ - IF fault = "ok" THEN 0 ELSE 1]
        /\ handlers' = [handlers EXCEPT ![h] =
                IF r.raised
                THEN ControlExcept(s, r.msg)
                ELSE IF n = 0
                THEN [s EXCEPT !.pc = "save", !.pass_count = @ + 1,
                               !.queue = <<SaveCall(NoFinding, "PASS", None)>>]
                ELSE [s EXCEPT !.pc = "save", !.fail_count = @ + n, !.total_findings = @ + n,
                               !.queue = [i \in 1..n |->
                                    SaveCall(r.findings[i], r.findings[i].status, None)]]]
        /\ scans' = [scans EXCEPT ![s.scan_id].detected =
                Append(@, [control_id |-> control_id, fault |-> fault, raised |-> r.raised,
                           msg |-> r.msg, seeds |-> n])]
    /\ UNCHANGED <<cloud_accounts, control_results, audit_logs, cloud, clock, evidence_bucket>>

\* Lines 143-162: _save_result adds the row and commits.
ScanSaveResult(h) ==
    LET s == handlers[h]
        call == Head(s.queue)
    IN
    /\ h \in DOMAIN handlers
    /\ s.pc = "save"
    /\ \E ok \in CommitOutcomes(s) : \E broken \in SessionBreaks(ok) :
        /\ budget' = [budget EXCEPT !.faults = @ - CommitCost(s, ok)]
        /\ control_results' =
                IF ok
                THEN Append(control_results,
                        NewControlResult(Len(control_results) + 1, s.account_id,
                                         s.controls[s.idx], call.finding, call.status,
                                         s.scan_id, call.error_msg, clock))
                ELSE control_results
        /\ handlers' = [handlers EXCEPT ![h] =
                IF ok
                THEN [s EXCEPT !.pc = "log", !.queue = Tail(@),
                               !.saved = call.finding, !.saved_status = call.status]
                ELSE ControlExcept(WithSession(s, broken), DbErrorMsg)]
        /\ scans' = IF ok THEN scans ELSE [scans EXCEPT ![s.scan_id].db_failed = TRUE]
    /\ clock' = clock + 1
    /\ UNCHANGED <<cloud_accounts, audit_logs, cloud, evidence_bucket>>

\* After a _save_result returned: the next finding of the control, else the next control.
AfterSave(s) ==
    IF s.queue # <<>> THEN [s EXCEPT !.pc = "save"]
    ELSE [s EXCEPT !.pc = IF s.idx + 1 > Len(s.controls) THEN "finish" ELSE "detect",
                   !.idx = @ + 1, !.in_except = FALSE,
                   !.saved = NoFinding, !.saved_status = None]

\* Lines 164-176: _save_result logs the detection (a second commit).
ScanLogDetection(h) ==
    LET s == handlers[h]
        control_id == s.controls[s.idx]
    IN
    /\ h \in DOMAIN handlers
    /\ s.pc = "log"
    /\ \E ok \in CommitOutcomes(s) : \E broken \in SessionBreaks(ok) :
        /\ budget' = [budget EXCEPT !.faults = @ - CommitCost(s, ok)]
        /\ audit_logs' =
                IF ok
                THEN AuditAdd(audit_logs,
                        DetectionLogAudit(Len(audit_logs) + 1, clock, "detection",
                            s.account_id, NoId, control_id,
                            IF s.saved # NoFinding THEN s.saved.resource_id ELSE None,
                            [status |-> s.saved_status,
                             severity |-> ControlSeverity(control_id),
                             finding |-> IF s.saved # NoFinding
                                         THEN s.saved.finding_details ELSE EmptyDict]))
                ELSE audit_logs
        /\ handlers' = [handlers EXCEPT ![h] =
                IF ok THEN AfterSave(s) ELSE ControlExcept(WithSession(s, broken), DbErrorMsg)]
        /\ scans' = IF ok THEN scans ELSE [scans EXCEPT ![s.scan_id].db_failed = TRUE]
    /\ clock' = clock + 1
    /\ UNCHANGED <<cloud_accounts, control_results, cloud, evidence_bucket>>

\* Lines 90-93: last_scan_at, last_scan_status = "success", commit.
ScanFinish(h) ==
    LET s == handlers[h] IN
    /\ h \in DOMAIN handlers
    /\ s.pc = "finish"
    /\ \E ok \in CommitOutcomes(s) : \E broken \in SessionBreaks(ok) :
        /\ budget' = [budget EXCEPT !.faults = @ - CommitCost(s, ok)]
        /\ cloud_accounts' =
                IF ok
                THEN [cloud_accounts EXCEPT ![s.account_id].last_scan_at = clock,
                                            ![s.account_id].last_scan_status = "success"]
                ELSE cloud_accounts
        /\ handlers' = [handlers EXCEPT ![h] =
                IF ok THEN [s EXCEPT !.pc = "log_scan"]
                ELSE [WithSession(s, broken) EXCEPT !.pc = "abort"]]
        /\ scans' = [scans EXCEPT ![s.scan_id].loop_done = TRUE,
                                  ![s.scan_id].db_failed = @ \/ ~ok]
    /\ clock' = clock + 1
    /\ UNCHANGED <<control_results, audit_logs, cloud, evidence_bucket>>

\* Lines 95-125: the `scan` audit entry, then the summary is returned.
ScanLogCompletion(h) ==
    LET s == handlers[h]
        summary == Summary(Len(s.controls), s.pass_count, s.fail_count, s.error_count,
                           s.total_findings)
    IN
    /\ h \in DOMAIN handlers
    /\ s.pc = "log_scan"
    /\ \E ok \in CommitOutcomes(s) : \E broken \in SessionBreaks(ok) :
        /\ budget' = [budget EXCEPT !.faults = @ - CommitCost(s, ok)]
        /\ audit_logs' =
                IF ok
                THEN AuditAdd(audit_logs,
                        DetectionLogAudit(Len(audit_logs) + 1, clock, "scan",
                            s.account_id, cloud_accounts[s.account_id].organization_id,
                            None, None,
                            [scan_id |-> s.scan_id, controls_run |-> Len(s.controls),
                             total_findings |-> s.total_findings, pass |-> s.pass_count,
                             fail |-> s.fail_count, error |-> s.error_count]))
                ELSE audit_logs
        /\ handlers' = [handlers EXCEPT ![h] =
                IF ok
                THEN [IdleHandler EXCEPT !.response =
                        [op |-> "scan", kind |-> "returned", scan_id |-> s.scan_id,
                         account_id |-> s.account_id, status |-> "completed",
                         summary |-> summary]]
                ELSE [WithSession(s, broken) EXCEPT !.pc = "abort"]]
        /\ scans' = IF ok
                    THEN [scans EXCEPT ![s.scan_id].status = "completed",
                                       ![s.scan_id].summary = summary]
                    ELSE [scans EXCEPT ![s.scan_id].db_failed = TRUE]
    /\ clock' = clock + 1
    /\ UNCHANGED <<cloud_accounts, control_results, cloud, evidence_bucket>>

\* Lines 127-131: last_scan_status = "failed", commit, re-raise.
ScanAbort(h) ==
    LET s == handlers[h] IN
    /\ h \in DOMAIN handlers
    /\ s.pc = "abort"
    /\ \E ok \in CommitOutcomes(s) :
        /\ budget' = [budget EXCEPT !.faults = @ - CommitCost(s, ok)]
        /\ cloud_accounts' =
                IF ok
                THEN [cloud_accounts EXCEPT ![s.account_id].last_scan_status = "failed"]
                ELSE cloud_accounts
        /\ scans' = [scans EXCEPT ![s.scan_id].status = "raised",
                                  ![s.scan_id].db_failed = @ \/ ~ok]
    /\ handlers' = [handlers EXCEPT ![h] =
            [IdleHandler EXCEPT !.response = RaisedResponse("scan", "Exception")]]
    /\ clock' = clock + 1
    /\ UNCHANGED <<control_results, audit_logs, cloud, evidence_bucket>>

\* The task that runs scan_account is cancelled while it waits for a commit:
\* CancelledError is raised at the await.  scan_account has no handler for it.  Where
\* CancelledError derives from BaseException (Python 3.8 on) it passes both `except
\* Exception` clauses and leaves the call with nothing further written; where it
\* derives from Exception (Python 3.7) the clause around the await takes it like
\* any other exception.
ScanCancel(h) ==
    LET s == handlers[h] IN
    /\ h \in DOMAIN handlers
    /\ s.pc \in {"save", "log", "finish", "log_scan", "abort"}
    /\ budget.cancel > 0
    /\ budget' = [budget EXCEPT !.cancel = @ - 1]
    /\ \E is_exception \in BOOLEAN :
        LET after == IF is_exception /\ s.pc \in {"save", "log"}
                     THEN ControlExcept(s, "")
                     ELSE IF is_exception /\ s.pc \in {"finish", "log_scan"}
                     THEN [s EXCEPT !.pc = "abort"]
                     ELSE [IdleHandler EXCEPT !.response = RaisedResponse("scan", "CancelledError")]
        IN
        /\ handlers' = [handlers EXCEPT ![h] = after]
        /\ scans' = [scans EXCEPT ![s.scan_id].cancelled = TRUE,
                                  ![s.scan_id].loop_done = @ \/ s.pc = "finish",
                                  ![s.scan_id].status = IF after.pc = "idle" THEN "cancelled" ELSE @]
    /\ UNCHANGED <<cloud_accounts, control_results, audit_logs, cloud, evidence_bucket, clock>>

(***************************************************************************)
(* Controls: remediate and rollback                                        *)
(***************************************************************************)
\* BaseControl.remediate: the control does not implement remediation.
BaseControl_remediate(finding) ==
    RemediationResult(FALSE, finding.resource_id, finding.evidence, NoneJson, NoneJson,
                      "Remediation not implemented for this control")

\* S3PublicAccessControl.remediate calls put_public_access_block unless dry_run;
\* finding.evidence['bucket'] raises KeyError inside its try when the key is absent.
S3PublicAccessControl_remediate(finding, dry_run, fault) ==
    IF dry_run
    THEN RemediationResult(TRUE, finding.resource_id, finding.evidence,
                           [blocked |-> TRUE], finding.evidence, None)
    ELSE IF "bucket" \notin DOMAIN finding.evidence
    THEN RemediationResult(FALSE, finding.resource_id, finding.evidence, NoneJson, NoneJson,
                           "'bucket'")
    ELSE IF fault # "ok"
    THEN RemediationResult(FALSE, finding.resource_id, finding.evidence, NoneJson, NoneJson,
                           fault)
    ELSE RemediationResult(TRUE, finding.resource_id, finding.evidence,
                           [blocked |-> TRUE], finding.evidence, None)

Remediate(control_id, finding, dry_run, fault) ==
    IF control_id = "AWS-S3-001"
    THEN S3PublicAccessControl_remediate(finding, dry_run, fault)
    ELSE BaseControl_remediate(finding)

\* A remediate that reaches the provider on a dry run too.
RemediateCallsProvider_OnDryRun(control_id, finding, dry_run) ==
    /\ control_id = "AWS-S3-001"
    /\ "bucket" \in DOMAIN finding.evidence

\* Whether remediate reaches the provider (put_public_access_block is called).
RemediateCallsProvider(control_id, finding, dry_run) ==
    /\ control_id = "AWS-S3-001"
    /\ ~dry_run
    /\ "bucket" \in DOMAIN finding.evidence

\* The estate after put_public_access_block(Bucket=bucket, all four settings True).
PutPublicAccessBlock(c, bucket) ==
    [c EXCEPT !.buckets = [i \in 1..Len(c.buckets) |->
                                IF c.buckets[i].name = bucket
                                THEN [c.buckets[i] EXCEPT !.blocked = TRUE]
                                ELSE c.buckets[i]],
              !.mutations = @ + 1]

\* BaseControl.rollback; no registered control overrides it.
BaseControl_rollback(rollback_data) ==
    RemediationResult(FALSE,
                      IF "resource_id" \in DOMAIN rollback_data
                      THEN rollback_data.resource_id ELSE "unknown",
                      EmptyDict, NoneJson, NoneJson,
                      "Rollback not implemented for this control")

Rollback(control_id, rollback_data) == BaseControl_rollback(rollback_data)

(***************************************************************************)
(* RemediationEngine.remediate_finding                                     *)
(***************************************************************************)
\* The caller's request, kept with the response.
Request(finding_id, dry_run, actor) ==
    [finding_id |-> finding_id, dry_run |-> dry_run, actor |-> actor]

FindRecord(finding_id) ==
    IF finding_id \in 1..Len(control_results) THEN control_results[finding_id] ELSE NoRecord

\* The synthetic finding object of lines 68-73.
FindingObject(r) ==
    ControlFinding(r.status, r.resource_id, r.resource_type, r.finding_details,
                   r.evidence_before)

\* A state check that accepts every existing finding.
Remediable_AnyStatus(r) == r # NoRecord

\* A state check that only refuses FIXED findings.
Remediable_NotFixed(r) == r # NoRecord /\ r.status # "FIXED"

\* Lines 46-50: the finding exists and its status is FAIL or ERROR.
Remediable(r) == r # NoRecord /\ r.status \in {"FAIL", "ERROR"}

\* Lines 171-175: the finding exists, is FIXED and has rollback data.
RollbackAble(r) == r # NoRecord /\ r.status = "FIXED" /\ Truthy(r.rollback_data)

\* Lines 41-50: load the finding; it must exist and be FAIL or ERROR.
RemediateStart(h, finding_id, dry_run, approved_by) ==
    LET r == FindRecord(finding_id)
        req == Request(finding_id, dry_run, approved_by)
    IN
    /\ h \in DOMAIN handlers
    /\ handlers[h].pc = "idle"
    /\ \A g \in DOMAIN handlers : g < h => handlers[g].pc # "idle"
    /\ budget.calls > 0 /\ budget.remediate > 0
    /\ budget' = [budget EXCEPT !.calls = @ - 1, !.remediate = @ - 1]
    /\ handlers' = [handlers EXCEPT ![h] =
            IF ~Remediable(r)
            THEN [IdleHandler EXCEPT !.response =
                    [op |-> "remediate", kind |-> "raised", error |-> "ValueError",
                     request |-> req, loaded |-> r,
                     began |-> Began(control_results, Len(audit_logs), cloud.mutations)]]
            ELSE [IdleHandler EXCEPT !.pc = "remediate", !.finding_id = finding_id,
                                     !.finding_record = r, !.dry_run = dry_run,
                                     !.actor = approved_by,
                                     !.began = Began(control_results, Len(audit_logs), cloud.mutations)]]
    /\ UNCHANGED <<cloud_accounts, control_results, audit_logs, cloud, scans, clock, evidence_bucket>>

\* A failure branch that writes nothing to the row.
MarkFailed_WritesNothing(row, res) == row

\* Lines 122-124: the failure branch of a real run.
MarkFailed(row, res) ==
    [row EXCEPT !.remediation_status = "failed",
                !.remediation_details = [error |-> res.error_message]]

\* Lines 52-89 and 120-125: load the account, call the control's remediate, and on a
\* real run write the outcome to the finding row and commit.
RemediateExecute(h) ==
    LET s == handlers[h]
        r == s.finding_record
        finding == FindingObject(r)
    IN
    /\ h \in DOMAIN handlers
    /\ s.pc = "remediate"
    /\ \E fault \in (IF RemediateCallsProvider(r.control_id, finding, s.dry_run)
                     THEN AdapterFaults ELSE {"ok"}),
          ok \in (IF s.dry_run THEN {TRUE} ELSE CommitOutcomes(s)) :
        LET res == Remediate(r.control_id, finding, s.dry_run, fault)
            applied == RemediateCallsProvider(r.control_id, finding, s.dry_run) /\ fault = "ok"
        IN
        /\ Faults(fault, ok) <= budget.faults
        /\ budget' = [budget EXCEPT !.faults = @ - Faults(fault, ok)]
        /\ cloud' = IF applied THEN PutPublicAccessBlock(cloud, finding.evidence.bucket)
                    ELSE cloud
        /\ control_results' =
                IF s.dry_run \/ ~ok THEN control_results
                ELSE IF res.success
                THEN [control_results EXCEPT ![s.finding_id] =
                        [@ EXCEPT !.status = "FIXED",
                                  !.remediation_status = "executed",
                                  !.remediation_approved_by = s.actor,
                                  !.remediation_executed_at = clock,
                                  !.evidence_after = res.after_state,
                                  !.rollback_data = res.rollback_data,
                                  !.resolved_at = clock]]
                ELSE [control_results EXCEPT ![s.finding_id] = MarkFailed(@, res)]
        /\ handlers' = [handlers EXCEPT ![h] =
                IF ok
                THEN [s EXCEPT !.pc = "remediate_log", !.result = res]
                ELSE [IdleHandler EXCEPT !.response =
                        [op |-> "remediate", kind |-> "raised", error |-> DbErrorMsg,
                         request |-> Request(s.finding_id, s.dry_run, s.actor),
                         loaded |-> r, began |-> s.began]]]
    /\ clock' = clock + 1
    /\ UNCHANGED <<cloud_accounts, audit_logs, scans, evidence_bucket>>

\* Lines 91-118 and 127-148: the `remediation` audit entry, then the result is returned.
RemediateLog(h) ==
    LET s == handlers[h]
        r == s.finding_record
        res == s.result
        account == cloud_accounts[r.cloud_account_id]
        req == Request(s.finding_id, s.dry_run, s.actor)
        actor == IF TruthyStr(s.actor) THEN s.actor ELSE "system"
    IN
    /\ h \in DOMAIN handlers
    /\ s.pc = "remediate_log"
    /\ \E ok \in CommitOutcomes(s) :
        /\ budget' = [budget EXCEPT !.faults = @ - CommitCost(s, ok)]
        /\ audit_logs' =
                IF ~ok THEN audit_logs
                ELSE IF res.success
                THEN AuditAdd(audit_logs,
                        NewAuditLog(Len(audit_logs) + 1, clock, "remediation", actor,
                            r.cloud_account_id, account.organization_id, r.control_id,
                            r.resource_id, s.finding_id,
                            [dry_run |-> s.dry_run, success |-> TRUE,
                             finding_id |-> s.finding_id],
                            res.before_state, res.after_state, "success", None))
                ELSE AuditAdd(audit_logs,
                        NewAuditLog(Len(audit_logs) + 1, clock, "remediation", actor,
                            r.cloud_account_id, NoId, r.control_id,
                            r.resource_id, s.finding_id,
                            [dry_run |-> s.dry_run, success |-> FALSE,
                             error |-> res.error_message],
                            NoneJson, NoneJson, "failure", res.error_message))
        /\ handlers' = [handlers EXCEPT ![h] =
                [IdleHandler EXCEPT !.response =
                    IF ~ok
                    THEN [op |-> "remediate", kind |-> "raised", error |-> DbErrorMsg,
                          request |-> req, loaded |-> r, began |-> s.began]
                    ELSE IF res.success
                    THEN [op |-> "remediate", kind |-> "returned", success |-> TRUE,
                          request |-> req, loaded |-> r, began |-> s.began,
                          before_state |-> res.before_state,
                          after_state |-> res.after_state]
                    ELSE [op |-> "remediate", kind |-> "returned", success |-> FALSE,
                          request |-> req, loaded |-> r, began |-> s.began,
                          error |-> res.error_message]]]
    /\ clock' = clock + 1
    /\ UNCHANGED <<cloud_accounts, control_results, cloud, scans, evidence_bucket>>

(***************************************************************************)
(* RemediationEngine.rollback_remediation                                  *)
(***************************************************************************)
\* Lines 166-175: load the finding; it must be FIXED and carry rollback data.
RollbackStart(h, finding_id, rolled_back_by) ==
    LET r == FindRecord(finding_id)
        req == Request(finding_id, FALSE, rolled_back_by)
    IN
    /\ h \in DOMAIN handlers
    /\ handlers[h].pc = "idle"
    /\ \A g \in DOMAIN handlers : g < h => handlers[g].pc # "idle"
    /\ budget.calls > 0 /\ budget.rollback > 0
    /\ budget' = [budget EXCEPT !.calls = @ - 1, !.rollback = @ - 1]
    /\ handlers' = [handlers EXCEPT ![h] =
            IF ~RollbackAble(r)
            THEN [IdleHandler EXCEPT !.response =
                    [op |-> "rollback", kind |-> "raised", error |-> "ValueError",
                     request |-> req, loaded |-> r,
                     began |-> Began(control_results, Len(audit_logs), cloud.mutations)]]
            ELSE [IdleHandler EXCEPT !.pc = "rollback", !.finding_id = finding_id,
                                     !.finding_record = r, !.actor = rolled_back_by,
                                     !.began = Began(control_results, Len(audit_logs), cloud.mutations)]]
    /\ UNCHANGED <<cloud_accounts, control_results, audit_logs, cloud, scans, clock, evidence_bucket>>

\* A rollback that marks the row whatever the control reported.
RollbackOutcome_Always(row, r, res, now, rolled_back_by) ==
    [row EXCEPT !.status = "FAIL",
                !.remediation_status = "rolled_back",
                !.remediation_details =
                    [rolled_back_at |-> now, rolled_back_by |-> rolled_back_by]
                    @@ r.remediation_details]

\* Lines 194-204 and 223-228: the row is written only `if rollback_result.success`.
RollbackOutcome(row, r, res, now, rolled_back_by) ==
    IF res.success
    THEN [row EXCEPT !.status = "FAIL",
                     !.remediation_status = "rolled_back",
                     !.remediation_details =
                        [rolled_back_at |-> now, rolled_back_by |-> rolled_back_by]
                        @@ r.remediation_details]
    ELSE row

\* Lines 177-232: call the control's rollback; on success write FAIL / rolled_back,
\* commit, log the `rollback` audit entry (a second commit) and return; on failure
\* return success=false with nothing written.
RollbackExecute(h) ==
    LET s == handlers[h]
        r == s.finding_record
        res == Rollback(r.control_id, r.rollback_data)
        req == Request(s.finding_id, FALSE, s.actor)
    IN
    /\ h \in DOMAIN handlers
    /\ s.pc = "rollback"
    /\ \E ok \in (IF res.success THEN CommitOutcomes(s) ELSE {TRUE}) :
        /\ budget' = [budget EXCEPT !.faults = @ - CommitCost(s, ok)]
        /\ control_results' =
                IF ok
                THEN [control_results EXCEPT ![s.finding_id] =
                        RollbackOutcome(@, r, res, clock, s.actor)]
                ELSE control_results
        /\ audit_logs' =
                IF res.success /\ ok
                THEN AuditAdd(audit_logs,
                        NewAuditLog(Len(audit_logs) + 1, clock, "rollback", s.actor,
                            r.cloud_account_id, NoId, r.control_id, r.resource_id,
                            s.finding_id,
                            [finding_id |-> s.finding_id, success |-> TRUE],
                            NoneJson, NoneJson, "success", None))
                ELSE audit_logs
        /\ handlers' = [handlers EXCEPT ![h] =
                [IdleHandler EXCEPT !.response =
                    IF ~ok
                    THEN [op |-> "rollback", kind |-> "raised", error |-> DbErrorMsg,
                          request |-> req, loaded |-> r, began |-> s.began]
                    ELSE IF res.success
                    THEN [op |-> "rollback", kind |-> "returned", success |-> TRUE,
                          request |-> req, loaded |-> r, began |-> s.began]
                    ELSE [op |-> "rollback", kind |-> "returned", success |-> FALSE,
                          request |-> req, loaded |-> r, began |-> s.began,
                          error |-> res.error_message]]]
    /\ clock' = clock + 1
    /\ UNCHANGED <<cloud_accounts, cloud, scans, evidence_bucket>>

(***************************************************************************)
(* DetectionEngine.get_compliance_score                                    *)
(***************************************************************************)
\* Lines 201-209: the rows of the account if account_id is truthy, else the rows of
\* the organization's accounts if organization_id is truthy, else every row.
ScopedResults(account_id, organization_id) ==
    {i \in 1..Len(control_results) :
        IF account_id # NoId THEN control_results[i].cloud_account_id = account_id
        ELSE IF organization_id # NoId
        THEN cloud_accounts[control_results[i].cloud_account_id].organization_id = organization_id
        ELSE TRUE}

CountStatus(rows, status) == Cardinality({i \in rows : control_results[i].status = status})

\* round(n / d * 100, 2) in hundredths, ties to even.
RoundedPercent(n, d) ==
    LET q == (n * 10000) \div d
        r == (n * 10000) % d
    IN IF 2 * r > d THEN q + 1
       ELSE IF 2 * r = d THEN q + (q % 2)
       ELSE q

\* Lines 230-234: Counter of risk_level over the FAIL rows.
GetBySeverity(rows) ==
    [level \in {control_results[i].risk_level : i \in {j \in rows : control_results[j].status = "FAIL"}} |->
        Cardinality({i \in rows : control_results[i].status = "FAIL"
                                  /\ control_results[i].risk_level = level})]

\* Lines 211-228; score is in hundredths of a percent.
ComplianceScore(account_id, organization_id) ==
    LET results == ScopedResults(account_id, organization_id)
        pass_count == CountStatus(results, "PASS")
        fail_count == CountStatus(results, "FAIL")
        fixed_count == CountStatus(results, "FIXED")
        total == Cardinality(results)
    IN IF results = {}
       THEN [score |-> 0, total |-> 0, pass |-> 0, fail |-> 0, fixed |-> 0]
       ELSE [score |-> RoundedPercent(pass_count + fixed_count, total),
             total |-> total, pass |-> pass_count, fail |-> fail_count,
             fixed |-> fixed_count, by_severity |-> GetBySeverity(results)]

\* The scopes a caller asks for: an account, an organization, everything.
ScoreRequests ==
    {[account_id |-> 1, organization_id |-> NoId],
     [account_id |-> 2, organization_id |-> 1],
     [account_id |-> NoId, organization_id |-> 1],
     [account_id |-> NoId, organization_id |-> NoId]}

\* get_compliance_score reads and returns; it has no suspension point between the
\* query and the return that another handler's commit could fall into.
GetComplianceScore(h, req) ==
    /\ h \in DOMAIN handlers
    /\ handlers[h].pc = "idle"
    /\ \A g \in DOMAIN handlers : g < h => handlers[g].pc # "idle"
    /\ budget.calls > 0 /\ budget.score > 0
    /\ budget' = [budget EXCEPT !.calls = @ - 1, !.score = @ - 1]
    /\ handlers' = [handlers EXCEPT ![h] =
            [IdleHandler EXCEPT !.response =
                [op |-> "score", kind |-> "returned", request |-> req,
                 result |-> ComplianceScore(req.account_id, req.organization_id)]]]
    /\ UNCHANGED <<cloud_accounts, control_results, audit_logs, cloud, scans, clock, evidence_bucket>>

(***************************************************************************)
(* EvidenceEngine.export_audit_report                                      *)
(***************************************************************************)
\* Table organizations as scripts/seed_db.py fills it.
Organizations ==
    <<[id |-> 1, name |-> "Demo Organization",
       compliance_frameworks |-> <<"ISO27001", "SOC2", "GDPR">>]>>

\* Lines 50-53: scalar_one_or_none() over organizations.
FindOrganization(organization_id) ==
    IF organization_id \in 1..Len(Organizations) THEN {Organizations[organization_id]} ELSE {}

\* order_by(AuditLog.timestamp.desc()): newest first.
RECURSIVE OrderByTimestampDesc(_)
OrderByTimestampDesc(rows) ==
    IF rows = <<>> THEN <<>>
    ELSE LET newest == CHOOSE i \in 1..Len(rows) :
                            \A j \in 1..Len(rows) : rows[j].timestamp <= rows[i].timestamp
         IN <<rows[newest]>> \o
            OrderByTimestampDesc([k \in 1..(Len(rows) - 1) |->
                                    IF k < newest THEN rows[k] ELSE rows[k + 1]])

\* Lines 58-69: the audit entries of the organization inside the window, newest first.
ReportAuditLogs(organization_id, start_date, end_date) ==
    OrderByTimestampDesc(SelectSeq(audit_logs, LAMBDA log :
        /\ log.organization_id = organization_id
        /\ start_date # NoTime => log.timestamp >= start_date
        /\ end_date # NoTime => log.timestamp <= end_date))

\* Lines 71-76: the findings of the organization's accounts.
ReportControlResults(organization_id) ==
    SelectSeq(control_results, LAMBDA r :
        cloud_accounts[r.cloud_account_id].organization_id = organization_id)

CountRows(rows, status) == Cardinality({i \in 1..Len(rows) : rows[i].status = status})

\* audit_logs[:1000] and failed_results[:20].
ReportLogLimit == 1000
ReportFailedLimit == 20
FirstN(rows, n) == SubSeq(rows, 1, IF Len(rows) < n THEN Len(rows) ELSE n)

\* f"{score:.1f}" of (n / d * 100): tenths of a percent, ties to even.
PercentTenths(n, d) ==
    LET q == (n * 1000) \div d
        r == (n * 1000) % d
    IN IF 2 * r > d THEN q + 1
       ELSE IF 2 * r = d THEN q + (q % 2)
       ELSE q

\* Lines 221-265: what the JSON artifact holds.
GenerateJsonReport(organization, logs, results) ==
    [organization |-> [id |-> organization.id, name |-> organization.name,
                       frameworks |-> organization.compliance_frameworks],
     summary |-> [total_controls |-> Len(results),
                  pass |-> CountRows(results, "PASS"),
                  fail |-> CountRows(results, "FAIL"),
                  fixed |-> CountRows(results, "FIXED")],
     control_results |-> [i \in 1..Len(results) |->
            [control_id |-> results[i].control_id, status |-> results[i].status,
             severity |-> results[i].risk_level, resource_id |-> results[i].resource_id,
             resource_type |-> results[i].resource_type,
             detected_at |-> results[i].detected_at,
             resolved_at |-> results[i].resolved_at]],
     audit_logs |-> [i \in 1..Len(FirstN(logs, ReportLogLimit)) |->
            [timestamp |-> logs[i].timestamp, event_type |-> logs[i].event_type,
             actor |-> logs[i].actor, success |-> logs[i].success]]]

\* Lines 137-219: what the PDF artifact holds.
GeneratePdfReport(organization, logs, results, start_date, end_date) ==
    LET failed == SelectSeq(results, LAMBDA r : r.status = "FAIL")
        total == Len(results)
    IN
    [title |-> organization.name,
     period |-> <<start_date, end_date>>,
     frameworks |-> organization.compliance_frameworks,
     total |-> total,
     pass |-> CountRows(results, "PASS"),
     fail |-> CountRows(results, "FAIL"),
     fixed |-> CountRows(results, "FIXED"),
     score |-> IF total > 0
               THEN PercentTenths(CountRows(results, "PASS") + CountRows(results, "FIXED"), total)
               ELSE 0,
     failed |-> [i \in 1..Len(FirstN(failed, ReportFailedLimit)) |->
            [control_id |-> failed[i].control_id, resource_id |-> failed[i].resource_id,
             severity |-> failed[i].risk_level, detected_at |-> failed[i].detected_at]],
     events |-> Len(logs)]

\* Line 93: audit-reports/{organization_id}/{utcnow}.{ext}
ReportKey(organization_id, now, file_ext) ==
    [prefix |-> "audit-reports", organization_id |-> organization_id, at |-> now,
     ext |-> file_ext]

\* Lines 115-122: the dict returned after the upload.
ExportResult(report_key, format, logs, results) ==
    [report_key |-> report_key, download_url |-> "presigned", format |-> format,
     total_audit_logs |-> Len(logs), total_findings |-> Len(results)]

\* Lines 127-135: the dict returned when the upload raised.
ExportResultNoUpload(report_key, format, logs, results) ==
    [report_key |-> report_key, download_url |-> None, format |-> format,
     total_audit_logs |-> Len(logs), total_findings |-> Len(results),
     message |-> "Report generated successfully (S3 upload unavailable in demo mode)"]

\* What callers ask for: each format, a window, an organization that does not exist.
ExportRequests ==
    {[organization_id |-> 1, start_date |-> NoTime, end_date |-> NoTime, format |-> "json"],
     [organization_id |-> 1, start_date |-> NoTime, end_date |-> NoTime, format |-> "pdf"],
     [organization_id |-> 1, start_date |-> 5, end_date |-> 9, format |-> "json"],
     [organization_id |-> 2, start_date |-> NoTime, end_date |-> NoTime, format |-> "json"]}

\* export_audit_report reads, builds the artifact and puts it into the evidence
\* bucket; put_object returns or raises.  It writes nothing to the database.
ExportAuditReport(h, req) ==
    /\ h \in DOMAIN handlers
    /\ handlers[h].pc = "idle"
    /\ \A g \in DOMAIN handlers : g < h => handlers[g].pc # "idle"
    /\ budget.calls > 0 /\ budget.export > 0
    /\ IF FindOrganization(req.organization_id) = {}
       THEN /\ handlers' = [handlers EXCEPT ![h] =
                    [IdleHandler EXCEPT !.response =
                        [op |-> "export", kind |-> "raised", error |-> "ValueError",
                         request |-> req]]]
            /\ budget' = [budget EXCEPT !.calls = @ - 1, !.export = @ - 1]
            /\ UNCHANGED evidence_bucket
       ELSE \E fault \in AdapterFaults :
            LET organization == CHOOSE o \in FindOrganization(req.organization_id) : TRUE
                logs == ReportAuditLogs(req.organization_id, req.start_date, req.end_date)
                results == ReportControlResults(req.organization_id)
                report_data == IF req.format = "pdf"
                               THEN GeneratePdfReport(organization, logs, results,
                                                      req.start_date, req.end_date)
                               ELSE GenerateJsonReport(organization, logs, results)
                file_ext == IF req.format = "pdf" THEN "pdf" ELSE "json"
                report_key == ReportKey(req.organization_id, clock, file_ext)
            IN
            /\ budget' = [budget EXCEPT !.calls = @ - 1, !.export = @ - 1,
                                        !.faults = @ - IF fault = "ok" THEN 0 ELSE 1]
            /\ evidence_bucket' =
                    IF fault = "ok"
                    THEN evidence_bucket \cup {[key |-> report_key, body |-> report_data]}
                    ELSE evidence_bucket
            /\ handlers' = [handlers EXCEPT ![h] =
                    [IdleHandler EXCEPT !.response =
                        [op |-> "export", kind |-> "returned", request |-> req,
                         uploaded |-> fault = "ok", generated |-> report_data,
                         result |-> IF fault = "ok"
                                    THEN ExportResult(report_key, req.format, logs, results)
                                    ELSE ExportResultNoUpload(report_key, req.format, logs, results)]]]
    /\ UNCHANGED <<cloud_accounts, control_results, audit_logs, cloud, scans, clock>>

\* Line 273: the key of an evidence snapshot; strftime('%Y%m%d_%H%M%S') keeps the
\* time to the second and nothing else tells one call from another.
EvidenceKey(control_result_id, now) ==
    [prefix |-> "evidence", control_result_id |-> control_result_id, at |-> now]

\* put_object writes the object of that key, replacing the one that was there.
PutObject(bucket, key, body) ==
    {o \in bucket : o.key # key} \cup {[key |-> key, body |-> body]}

\* What callers store, and for which Findings.
EvidenceData == {[snapshot |-> "before"], [snapshot |-> "after"]}
EvidenceResultIds == {1, 2}

\* store_evidence (lines 267-288) builds the key from the id and the time, puts the
\* object and returns the key; an error of put_object is logged and raised again.
\* Nothing in it waits, so the time may be the same in two calls.
StoreEvidence(h, control_result_id, evidence_data) ==
    /\ h \in DOMAIN handlers
    /\ handlers[h].pc = "idle"
    /\ \A g \in DOMAIN handlers : g < h => handlers[g].pc # "idle"
    /\ budget.calls > 0 /\ budget.evidence > 0
    /\ \E fault \in AdapterFaults :
        LET evidence_key == EvidenceKey(control_result_id, clock)
            request == [control_result_id |-> control_result_id,
                        evidence_data |-> evidence_data]
        IN
        /\ budget' = [budget EXCEPT !.calls = @ - 1, !.evidence = @ - 1,
                                    !.faults = @ - IF fault = "ok" THEN 0 ELSE 1]
        /\ evidence_bucket' =
                IF fault = "ok"
                THEN PutObject(evidence_bucket, evidence_key, evidence_data)
                ELSE evidence_bucket
        /\ handlers' = [handlers EXCEPT ![h] =
                [IdleHandler EXCEPT !.response =
                    IF fault = "ok"
                    THEN [op |-> "store_evidence", kind |-> "returned", request |-> request,
                          result |-> evidence_key,
                          replaced |-> {o \in evidence_bucket : o.key = evidence_key}]
                    ELSE [op |-> "store_evidence", kind |-> "raised", error |-> fault,
                          request |-> request]]]
    /\ UNCHANGED <<cloud_accounts, control_results, audit_logs, cloud, scans, clock>>

\* What callers pass.
FindingIds == 1..(Len(control_results) + 1)
Approvers == {None, "a@x"}
Actors == {"admin@x"}

(***************************************************************************)
(* The system.                                                             *)
(***************************************************************************)
InitialAccounts ==
    [a \in 1..4 |->
        [provider |-> CASE a = 1 -> "aws" [] a = 2 -> "azure" [] a = 3 -> "azure" [] a = 4 -> "gcp",
         organization_id |-> 1,
         credentials_ok |-> a # 3,
         last_scan_status |-> None,
         last_scan_at |-> NoTime]]

InitialCloud(open_perms) ==
    [users |-> <<[name |-> "u1", arn |-> "arn:aws:iam::user/u1", mfa |-> TRUE]>>,
     buckets |-> <<[name |-> "b1", arn |-> "arn:aws:s3:::b1", blocked |-> FALSE]>>,
     security_groups |-> <<[id |-> "sg-1", open_perms |-> open_perms]>>,
     db_instances |-> <<[name |-> "db1", arn |-> "arn:aws:rds:db1", encrypted |-> FALSE]>>,
     mutations |-> 0]

InitWith(n_handlers, b) ==
    /\ cloud_accounts = InitialAccounts
    /\ control_results = <<>>
    /\ audit_logs = <<>>
    /\ \E n \in {0, MaxOpenPerms} : cloud = InitialCloud(n)
    /\ evidence_bucket = {}
    /\ handlers = [h \in 1..n_handlers |-> IdleHandler]
    /\ scans = <<>>
    /\ clock = 1
    /\ budget = b

\* One request at a time.
Init ==
    InitWith(1, [calls |-> MaxCalls, scan |-> MaxScans, remediate |-> MaxRemediations,
                 rollback |-> MaxRollbacks, score |-> MaxScores, export |-> MaxExports,
                 faults |-> MaxFaults, cancel |-> 0, evidence |-> 0])

\* Two requests in flight.
ConcInit ==
    InitWith(2, [calls |-> ConcCalls, scan |-> MaxScans, remediate |-> MaxRemediations,
                 rollback |-> MaxRollbacks, score |-> 0, export |-> 0,
                 faults |-> ConcFaults, cancel |-> 0, evidence |-> 0])

Next ==
    \E h \in Handlers :
        \/ \E a \in ScanAccountIds, f \in ControlIdFilters : ScanStart(h, a, f)
        \/ ScanDetect(h)
        \/ ScanSaveResult(h)
        \/ ScanLogDetection(h)
        \/ ScanFinish(h)
        \/ ScanLogCompletion(h)
        \/ ScanAbort(h)
        \/ \E f \in FindingIds, d \in BOOLEAN, a \in Approvers : RemediateStart(h, f, d, a)
        \/ RemediateExecute(h)
        \/ RemediateLog(h)
        \/ \E f \in FindingIds, a \in Actors : RollbackStart(h, f, a)
        \/ RollbackExecute(h)
        \/ \E req \in ScoreRequests : GetComplianceScore(h, req)
        \/ \E req \in ExportRequests : ExportAuditReport(h, req)

Spec == Init /\ [][Next]_vars

\* The same steps with two handlers, on the requests that can meet: scans of the AWS
\* account (one control) and of the unsupported provider, and real remediations.
ConcNext ==
    \E h \in Handlers :
        \/ \E a \in {1, 4} : ScanStart(h, a, {"AWS-S3-001"})
        \/ ScanDetect(h)
        \/ ScanSaveResult(h)
        \/ ScanLogDetection(h)
        \/ ScanFinish(h)
        \/ ScanLogCompletion(h)
        \/ ScanAbort(h)
        \/ \E f \in FindingIds : RemediateStart(h, f, FALSE, "a@x")
        \/ RemediateExecute(h)
        \/ RemediateLog(h)
        \/ \E f \in FindingIds, a \in Actors : RollbackStart(h, f, a)
        \/ RollbackExecute(h)

ConcSpec == ConcInit /\ [][ConcNext]_vars

\* Scans of one handler whose task may be cancelled.
CancelInit ==
    InitWith(1, [calls |-> CancelCalls, scan |-> MaxScans, remediate |-> 0, rollback |-> 0,
                 score |-> 0, export |-> 0, faults |-> MaxFaults, cancel |-> MaxCancels,
                 evidence |-> 0])

CancelNext ==
    \E h \in Handlers :
        \/ \E a \in ScanAccountIds, f \in ControlIdFilters : ScanStart(h, a, f)
        \/ ScanDetect(h)
        \/ ScanSaveResult(h)
        \/ ScanLogDetection(h)
        \/ ScanFinish(h)
        \/ ScanLogCompletion(h)
        \/ ScanAbort(h)
        \/ ScanCancel(h)

CancelSpec == CancelInit /\ [][CancelNext]_vars

\* Evidence snapshots stored between the steps of scans of one handler.
EvidenceInit ==
    InitWith(1, [calls |-> EvidenceCalls, scan |-> 1, remediate |-> 0, rollback |-> 0,
                 score |-> 0, export |-> 0, faults |-> MaxFaults, cancel |-> 0,
                 evidence |-> MaxEvidence])

EvidenceNext ==
    \E h \in Handlers :
        \/ \E a \in {1, 4} : ScanStart(h, a, {"AWS-S3-001"})
        \/ ScanDetect(h)
        \/ ScanSaveResult(h)
        \/ ScanLogDetection(h)
        \/ ScanFinish(h)
        \/ ScanLogCompletion(h)
        \/ ScanAbort(h)
        \/ \E c \in EvidenceResultIds, d \in EvidenceData : StoreEvidence(h, c, d)

EvidenceSpec == EvidenceInit /\ [][EvidenceNext]_vars

-----------------------------------------------------------------------------
\* Properties.

FindingRows == 1..Len(control_results)
Responses == {handlers[h].response : h \in DOMAIN handlers}
BucketBlocked(arn) ==
    \E i \in 1..Len(cloud.buckets) : cloud.buckets[i].arn = arn /\ cloud.buckets[i].blocked

\* C1: every Finding whose status is FIXED carries its remediation record: rollback
\* data, execution time, approver, resolution time and after-evidence are all set.
C1_FixedHasRemediationRecord ==
    \A i \in FindingRows :
        control_results[i].status = "FIXED" =>
            /\ control_results[i].rollback_data # NoneJson
            /\ control_results[i].remediation_executed_at # NoTime
            /\ control_results[i].remediation_approved_by # None
            /\ control_results[i].resolved_at # NoTime
            /\ control_results[i].evidence_after # NoneJson

\* C2: a real remediation (dry_run = false) without an approver is rejected with a
\* validation error: it never reaches the control's remediate, and the call answers
\* by raising, with the Finding as loaded and the audit log as it was.
C2_UnapprovedRealRunRejected ==
    /\ \A h \in DOMAIN handlers :
            handlers[h].pc \in {"remediate", "remediate_log"} =>
                handlers[h].dry_run \/ TruthyStr(handlers[h].actor)
    /\ \A rsp \in Responses :
            (/\ rsp # NoResponse
             /\ rsp.op = "remediate"
             /\ ~rsp.request.dry_run
             /\ ~TruthyStr(rsp.request.actor)) =>
                /\ rsp.kind = "raised"
                /\ rsp.error = "ValueError"
                /\ Len(audit_logs) = rsp.began.audit_logs
                /\ cloud.mutations = rsp.began.mutations
                /\ rsp.loaded # NoRecord => control_results[rsp.request.finding_id] = rsp.loaded

\* C3: a rollback_remediation admitted on a really remediated Finding succeeds and
\* leaves the Finding FAIL / rolled_back with the resource as before the remediation.
C3_RollbackRestores ==
    \A rsp \in Responses :
        (rsp # NoResponse /\ rsp.op = "rollback" /\ rsp.kind = "returned") =>
            /\ rsp.success
            /\ control_results[rsp.request.finding_id].status = "FAIL"
            /\ control_results[rsp.request.finding_id].remediation_status = "rolled_back"
            /\ ~BucketBlocked(rsp.loaded.resource_id)

\* C4: a real remediate_finding on a Finding already FIXED / executed answers
\* success with noop = true, mutates nothing at the provider and logs nothing.
C4_SecondRemediationIsNoop ==
    \A rsp \in Responses :
        (/\ rsp # NoResponse
         /\ rsp.op = "remediate"
         /\ ~rsp.request.dry_run
         /\ rsp.loaded # NoRecord
         /\ rsp.loaded.status = "FIXED"
         /\ rsp.loaded.remediation_status = "executed") =>
            /\ rsp.kind = "returned"
            /\ rsp.success
            /\ "noop" \in DOMAIN rsp
            /\ rsp.noop
            /\ cloud.mutations = rsp.began.mutations
            /\ Len(audit_logs) = rsp.began.audit_logs

ScanIds == 1..Len(scans)
InDetectionLoop(h) == handlers[h].pc \in {"detect", "save", "log"}
FindingsOfScan(S) == {i \in FindingRows : control_results[i].scan_id = S}
FindingsOfControl(S, control_id) ==
    {i \in FindingsOfScan(S) : control_results[i].control_id = control_id}

\* What the detect outcomes of a scan call for: one Finding per seed, one PASS per
\* empty detect, one ERROR per detect that raised.
RECURSIVE ExpectedFindings(_)
ExpectedFindings(detected) ==
    IF detected = <<>> THEN 0
    ELSE (IF Head(detected).raised \/ Head(detected).seeds = 0 THEN 1 ELSE Head(detected).seeds)
         + ExpectedFindings(Tail(detected))

\* C5: at most one scan is active per account: no two scan_account calls are inside
\* the detection loop for the same account at once.
C5_AtMostOneActiveScan ==
    \A g \in DOMAIN handlers, h \in DOMAIN handlers :
        (g # h /\ InDetectionLoop(g) /\ InDetectionLoop(h)) =>
            handlers[g].account_id # handlers[h].account_id

\* C6: a completed scan has exactly as many Findings as its detect outcomes call
\* for: the seeds, one PASS per empty detect and one ERROR per detect that raised.
C6_FindingCountMatchesOutcomes ==
    \A S \in ScanIds :
        scans[S].status = "completed" =>
            Cardinality(FindingsOfScan(S)) = ExpectedFindings(scans[S].detected)

\* C7: no two Findings share scan, control and resource.
C7_OneFindingPerKey ==
    \A i \in FindingRows, j \in FindingRows :
        (/\ i # j
         /\ control_results[i].scan_id = control_results[j].scan_id
         /\ control_results[i].control_id = control_results[j].control_id) =>
            control_results[i].resource_id # control_results[j].resource_id

RaisedDetects(S) == {k \in 1..Len(scans[S].detected) : scans[S].detected[k].raised}
\* The scan_account call S is past its k-th control.
PastControl(S, k) ==
    \/ scans[S].status # "running"
    \/ \E h \in DOMAIN handlers :
            handlers[h].scan_id = S /\ (handlers[h].idx > k \/ handlers[h].pc = "finish")

\* C8: a control whose detect raises does not abort the scan: barring a database
\* failure, the scan records exactly one ERROR Finding for that control, goes on to
\* every remaining selected control and completes with last_scan_status = success.
C8_DetectErrorDoesNotAbort ==
    \A S \in ScanIds :
        (RaisedDetects(S) # {} /\ ~scans[S].db_failed) =>
            /\ \A k \in RaisedDetects(S) :
                    PastControl(S, k) =>
                        /\ Cardinality(FindingsOfControl(S, scans[S].detected[k].control_id)) = 1
                        /\ \A i \in FindingsOfControl(S, scans[S].detected[k].control_id) :
                                control_results[i].status = "ERROR"
            /\ \A h \in DOMAIN handlers : handlers[h].scan_id = S => handlers[h].pc # "abort"
            /\ scans[S].status # "running" =>
                    /\ scans[S].status = "completed"
                    /\ Len(scans[S].detected) = Len(scans[S].controls)
                    /\ \A k \in 1..Len(scans[S].controls) :
                            /\ scans[S].detected[k].control_id = scans[S].controls[k]
                            /\ FindingsOfControl(S, scans[S].controls[k]) # {}
            /\ \A h \in DOMAIN handlers :
                    (handlers[h].pc = "log_scan" /\ handlers[h].scan_id = S) =>
                        cloud_accounts[scans[S].account_id].last_scan_status = "success"

\* A completed scan of several controls in which a control other than the last
\* raised from detect.
C8_Witness ==
    \E S \in ScanIds :
        /\ scans[S].status = "completed"
        /\ ~scans[S].db_failed
        /\ \E k \in RaisedDetects(S) : k < Len(scans[S].controls)

\* C9: every ERROR Finding carries a non-empty error text in finding_details.
C9_ErrorFindingHasErrorText ==
    \A i \in FindingRows :
        control_results[i].status = "ERROR" =>
            /\ "error" \in DOMAIN control_results[i].finding_details
            /\ control_results[i].finding_details.error # ""

\* C10: a scan_account call that fails in the orchestrator leaves the account with
\* last_scan_status = failed and a `scan` audit entry with outcome failure.
C10_AbortedScanIsAudited ==
    \A S \in ScanIds :
        scans[S].status = "raised" =>
            /\ \E i \in 1..Len(audit_logs) :
                    /\ audit_logs[i].event_type = "scan"
                    /\ audit_logs[i].cloud_account_id = scans[S].account_id
                    /\ audit_logs[i].success = "failure"
            /\ (\A T \in ScanIds : T > S => scans[T].account_id # scans[S].account_id) =>
                    cloud_accounts[scans[S].account_id].last_scan_status = "failed"

\* The scan S is the latest scan_account call on its account.
LatestScanOfAccount(S) ==
    \A T \in ScanIds : T > S => scans[T].account_id # scans[S].account_id

\* C11: once a scan_account call has ended, last_scan_status = failed only if no
\* Finding of that scan was persisted, and a scan that went through all its controls
\* leaves last_scan_status = success with last_scan_at set, whatever fails later in
\* the call.
C11_FailedOnlyBeforePersistence ==
    \A S \in ScanIds :
        (scans[S].status # "running" /\ LatestScanOfAccount(S)) =>
            LET account == cloud_accounts[scans[S].account_id] IN
            /\ account.last_scan_status = "failed" => FindingsOfScan(S) = {}
            /\ scans[S].loop_done =>
                    /\ account.last_scan_status = "success"
                    /\ account.last_scan_at >= scans[S].started_at

\* The score of the design over a set of rows: (PASS + FIXED) / (PASS + FAIL + FIXED),
\* ERROR and MANUAL left out, in the units of ComplianceScore.
ScoreOverDecided(rows) ==
    RoundedPercent(CountStatus(rows, "PASS") + CountStatus(rows, "FIXED"),
                   CountStatus(rows, "PASS") + CountStatus(rows, "FAIL")
                        + CountStatus(rows, "FIXED"))

\* C12: the compliance score over the scoped Findings is
\* (PASS + FIXED) / (PASS + FAIL + FIXED); ERROR and MANUAL Findings do not count.
C12_ScoreExcludesError ==
    \A rsp \in Responses :
        (rsp.op = "score"
         /\ \E i \in ScopedResults(rsp.request.account_id, rsp.request.organization_id) :
                control_results[i].status \in {"PASS", "FAIL", "FIXED"}) =>
            rsp.result.score =
                ScoreOverDecided(ScopedResults(rsp.request.account_id,
                                               rsp.request.organization_id))

\* The remediate_finding calls that ended after passing the state check.
EndedRemediations ==
    {rsp \in Responses : rsp.op = "remediate" /\ rsp.loaded # NoRecord
                         /\ rsp.loaded.status \in {"FAIL", "ERROR"}}

DryRunEntry(entry, finding_id) ==
    /\ entry.event_type = "remediation"
    /\ entry.control_result_id = finding_id
    /\ entry.event_data.dry_run

\* C13: a dry run changes nothing: the Finding is as it was loaded and the provider
\* was not called, whether the control reports success or failure; a dry run that
\* returns has appended exactly one `remediation` audit entry with dry_run = true
\* (one whose audit commit raised has appended none).
C13_DryRunMutatesNothing ==
    \A rsp \in EndedRemediations :
        rsp.request.dry_run =>
            /\ control_results[rsp.request.finding_id] = rsp.loaded
            /\ cloud.mutations = rsp.began.mutations
            /\ rsp.kind = "returned" =>
                    /\ Len(audit_logs) = rsp.began.audit_logs + 1
                    /\ DryRunEntry(audit_logs[Len(audit_logs)], rsp.request.finding_id)
            /\ rsp.kind = "raised" => Len(audit_logs) = rsp.began.audit_logs

\* A dry run of the S3 control has returned success on a FAIL Finding, after a dry
\* run in which a control reported failure.
C13_Witness ==
    /\ \E rsp \in EndedRemediations :
            /\ rsp.request.dry_run /\ rsp.kind = "returned" /\ rsp.success
            /\ rsp.loaded.status = "FAIL" /\ rsp.loaded.control_id = "AWS-S3-001"
    /\ \E i \in 1..Len(audit_logs) :
            /\ audit_logs[i].event_type = "remediation"
            /\ audit_logs[i].event_data.dry_run
            /\ audit_logs[i].success = "failure"

\* The real remediations that returned success = false.
FailedRealRuns ==
    {rsp \in EndedRemediations : ~rsp.request.dry_run /\ rsp.kind = "returned" /\ ~rsp.success}

\* C14: a real remediation that fails leaves the Finding's status as it was, sets
\* remediation_status = failed with the error in remediation_details.error, appends
\* one `remediation` audit entry with outcome failure, and leaves the Finding in a
\* state remediate_finding accepts.
C14_FailedRemediationRecorded ==
    \A rsp \in FailedRealRuns :
        LET row == control_results[rsp.request.finding_id]
            entry == audit_logs[Len(audit_logs)]
        IN
        /\ row = [rsp.loaded EXCEPT !.remediation_status = "failed",
                                    !.remediation_details = [error |-> rsp.error]]
        /\ row.status = rsp.loaded.status
        /\ row.status \in {"FAIL", "ERROR"}
        /\ Len(audit_logs) = rsp.began.audit_logs + 1
        /\ entry.event_type = "remediation"
        /\ entry.control_result_id = rsp.request.finding_id
        /\ entry.success = "failure"
        /\ entry.error_message = rsp.error

\* The provider refused the put_public_access_block of a real remediation of a FAIL
\* Finding.
C14_Witness ==
    \E rsp \in FailedRealRuns :
        /\ rsp.loaded.status = "FAIL"
        /\ rsp.loaded.control_id = "AWS-S3-001"
        /\ rsp.error = "AccessDenied"

\* The controls whose class defines remediate.
RemediableControls == {"AWS-S3-001"}

\* C15: remediate_finding on a Finding whose control does not implement remediate is
\* a validation error raised to the caller, and status, remediation_status and
\* remediation_details of the Finding stay as they were, dry run or not.
C15_NonRemediableControlRejected ==
    \A rsp \in EndedRemediations :
        rsp.loaded.control_id \notin RemediableControls =>
            LET row == control_results[rsp.request.finding_id] IN
            /\ rsp.kind = "raised"
            /\ rsp.error = "ValueError"
            /\ row.status = rsp.loaded.status
            /\ row.remediation_status = rsp.loaded.remediation_status
            /\ row.remediation_details = rsp.loaded.remediation_details

\* The calls that asked for a transition from a state that does not allow it.
IllegalSource(rsp) ==
    \/ /\ rsp.op = "remediate"
       /\ rsp.loaded # NoRecord
       /\ rsp.loaded.status \notin {"FAIL", "ERROR"}
    \/ /\ rsp.op = "rollback"
       /\ rsp.loaded # NoRecord
       /\ (rsp.loaded.status # "FIXED" \/ rsp.loaded.rollback_data = NoneJson)

\* C16: remediate_finding on a Finding that is not FAIL or ERROR, and
\* rollback_remediation on a Finding that is not FIXED or has no rollback data, raise
\* and leave every Finding, the audit log and the provider as they were.
C16_IllegalSourceHasNoEffect ==
    \A rsp \in Responses :
        IllegalSource(rsp) =>
            /\ rsp.kind = "raised"
            /\ rsp.error = "ValueError"
            /\ control_results = rsp.began.findings
            /\ Len(audit_logs) = rsp.began.audit_logs
            /\ cloud.mutations = rsp.began.mutations

\* A real remediation was asked for a PASS Finding.
C16_Witness ==
    \E rsp \in Responses :
        /\ IllegalSource(rsp)
        /\ rsp.op = "remediate"
        /\ ~rsp.request.dry_run
        /\ rsp.loaded.status = "PASS"

\* The audit entries of real remediations of a Finding that the control carried out.
ExecutedEntries(finding_id) ==
    {i \in DOMAIN audit_logs :
        /\ audit_logs[i].event_type = "remediation"
        /\ audit_logs[i].control_result_id = finding_id
        /\ audit_logs[i].success = "success"
        /\ ~audit_logs[i].event_data.dry_run}

\* C17: remediations of one Finding are serialized: however two real
\* remediate_finding calls on the same FAIL Finding interleave, the provider is
\* mutated at most once for it (no more mutations than Findings that became FIXED)
\* and at most one executed-remediation audit entry is written for it.
C17_RemediationSerializedPerFinding ==
    /\ \A f \in FindingRows : Cardinality(ExecutedEntries(f)) <= 1
    /\ cloud.mutations <= Cardinality({f \in FindingRows : control_results[f].status = "FIXED"})

\* C18: a Finding whose remediation_status is rolled_back has status FAIL.  No
\* registered control implements rollback, so no reachable Finding is rolled_back.
C18_RolledBackIsFail ==
    \A f \in FindingRows :
        control_results[f].remediation_status = "rolled_back" => control_results[f].status = "FAIL"

\* The remediation fields of a Finding as _save_result leaves them.
RemediationUnset(row) ==
    /\ row.remediation_status = None
    /\ row.remediation_approved_by = None
    /\ row.remediation_executed_at = NoTime
    /\ row.remediation_details = EmptyDict
    /\ row.evidence_after = NoneJson
    /\ row.rollback_data = NoneJson
    /\ row.resolved_at = NoTime

\* C19: a PASS Finding has no remediation status, and no step of any remediate_finding
\* or rollback_remediation call changes a PASS Finding.
C19_PassFindingUntouched ==
    /\ [](\A f \in FindingRows :
            control_results[f].status = "PASS" => RemediationUnset(control_results[f]))
    /\ [][\A f \in FindingRows :
            control_results[f].status = "PASS" => control_results'[f] = control_results[f]]_vars

\* A real remediation and then a rollback were asked for a PASS Finding.
C19_Witness ==
    \E rsp \in Responses :
        /\ rsp.op = "rollback"
        /\ rsp.loaded # NoRecord
        /\ rsp.loaded.status = "PASS"
        /\ budget.remediate < MaxRemediations

\* C20: no step changes evidence_before of an existing Finding, and a step that
\* makes a Finding rolled_back (a successful rollback) leaves its evidence_after and
\* rollback_data as they were.  No registered control implements rollback, so the
\* second part has no reachable step to speak of.
C20_EvidenceKept ==
    [][\A f \in FindingRows :
        /\ control_results'[f].evidence_before = control_results[f].evidence_before
        /\ (/\ control_results'[f].remediation_status = "rolled_back"
            /\ control_results[f].remediation_status # "rolled_back") =>
                /\ control_results'[f].evidence_after = control_results[f].evidence_after
                /\ control_results'[f].rollback_data = control_results[f].rollback_data]_vars

\* C21: the audit log is append-only and Findings are never deleted: every step of a
\* scan, remediation, rollback or export leaves each existing audit entry as it was
\* and in its place, and keeps every Finding row with its identity.
C21_AuditLogAppendOnly ==
    [][/\ Len(audit_logs') >= Len(audit_logs)
       /\ \A i \in 1..Len(audit_logs) : audit_logs'[i] = audit_logs[i]
       /\ Len(control_results') >= Len(control_results)
       /\ \A f \in FindingRows :
            /\ control_results'[f].id = control_results[f].id
            /\ control_results'[f].scan_id = control_results[f].scan_id
            /\ control_results'[f].control_id = control_results[f].control_id
            /\ control_results'[f].cloud_account_id = control_results[f].cloud_account_id]_vars

\* A report was exported after a scan and a remediation had written their entries.
C21_Witness ==
    /\ \E rsp \in Responses : rsp.op = "export" /\ rsp.kind = "returned"
    /\ \E i \in DOMAIN audit_logs : audit_logs[i].event_type = "remediation"
    /\ \E i \in DOMAIN audit_logs : audit_logs[i].event_type = "scan"
    /\ Len(audit_logs) >= 3

\* C22: the audit log is a hash chain: every entry stores the hash of the previous
\* entry of its organization (prev_hash) and its own hash over prev_hash and its
\* fields.  The rows of audit_logs have the columns of the AuditLog model and no
\* others.
C22_EntriesCarryHashChain ==
    \A i \in DOMAIN audit_logs : {"prev_hash", "hash"} \subseteq DOMAIN audit_logs[i]

\* The detect calls of a scan during which an adapter call raised.
FaultedDetects(S) == {k \in 1..Len(scans[S].detected) : scans[S].detected[k].fault # "ok"}

\* C23: an adapter error raised while a control's detect runs gives an ERROR Finding
\* for that control in the scan: barring a database failure, once the scan is past
\* the control its Findings for the control exist and all are ERROR, none PASS or FAIL.
C23_AdapterErrorGivesErrorFinding ==
    \A S \in ScanIds :
        \A k \in FaultedDetects(S) :
            (PastControl(S, k) /\ ~scans[S].db_failed) =>
                /\ FindingsOfControl(S, scans[S].detected[k].control_id) # {}
                /\ \A i \in FindingsOfControl(S, scans[S].detected[k].control_id) :
                        control_results[i].status = "ERROR"

\* The keys of an export response that describe the report: all but these would
\* carry something else, such as the artifact itself.
ExportMetadataKeys ==
    {"report_key", "download_url", "format", "generated_at", "total_audit_logs",
     "total_findings", "message"}

\* C24: when the upload of the artifact fails, export_audit_report still hands the
\* artifact to the caller: the response carries it inline, next to a degraded
\* indicator, so the generated report is in the bucket or in the response.
C24_DegradedExportReturnsArtifact ==
    \A rsp \in Responses :
        (rsp.op = "export" /\ rsp.kind = "returned" /\ ~rsp.uploaded) =>
            /\ "message" \in DOMAIN rsp.result
            /\ DOMAIN rsp.result \ ExportMetadataKeys # {}

\* The JSON reports exported without a window.
JsonExports ==
    {rsp \in Responses :
        /\ rsp.op = "export" /\ rsp.kind = "returned"
        /\ rsp.request.format = "json"
        /\ rsp.request.start_date = NoTime /\ rsp.request.end_date = NoTime}

\* The audit entries of the accounts of an organization.
EntriesOfOrganization(organization_id) ==
    {i \in DOMAIN audit_logs :
        /\ audit_logs[i].cloud_account_id \in DOMAIN cloud_accounts
        /\ cloud_accounts[audit_logs[i].cloud_account_id].organization_id = organization_id}

\* C25: after a completed scan and an executed remediation, the JSON report of the
\* organization lists the detection, remediation and scan entries of the
\* organization, oldest first.
C25_ReportListsEntriesOldestFirst ==
    \A rsp \in JsonExports :
        LET mine == EntriesOfOrganization(rsp.request.organization_id)
            listed == rsp.generated.audit_logs
        IN
        (/\ \E i \in mine : audit_logs[i].event_type = "scan"
         /\ \E i \in mine : audit_logs[i].event_type = "remediation"
                            /\ audit_logs[i].success = "success"
                            /\ ~audit_logs[i].event_data.dry_run) =>
            /\ \A i \in mine :
                    audit_logs[i].event_type \in {"detection", "remediation", "scan"} =>
                        \E j \in 1..Len(listed) :
                            /\ listed[j].timestamp = audit_logs[i].timestamp
                            /\ listed[j].event_type = audit_logs[i].event_type
            /\ \A j \in 1..Len(listed), k \in 1..Len(listed) :
                    j < k => listed[j].timestamp <= listed[k].timestamp

\* The audit entries that record the failure of a scan of an account.
ScanFailureEntries(S) ==
    {i \in DOMAIN audit_logs :
        /\ audit_logs[i].event_type = "scan"
        /\ audit_logs[i].cloud_account_id = scans[S].account_id
        /\ audit_logs[i].timestamp >= scans[S].started_at
        /\ audit_logs[i].success # "success"}

\* C26: a scan that was cancelled ends with last_scan_status = failed, never
\* in_progress, and with an audit entry that records the cancellation.
C26_CancelledScanEndsFailed ==
    \A S \in ScanIds :
        (scans[S].cancelled /\ scans[S].status # "running" /\ LatestScanOfAccount(S)) =>
            /\ cloud_accounts[scans[S].account_id].last_scan_status = "failed"
            /\ ScanFailureEntries(S) # {}

\* The `detection` audit entries written for a control and a resource of an account.
DetectionEntries(account_id, control_id, resource_id) ==
    {i \in DOMAIN audit_logs :
        /\ audit_logs[i].event_type = "detection"
        /\ audit_logs[i].cloud_account_id = account_id
        /\ audit_logs[i].control_id = control_id
        /\ audit_logs[i].resource_id = resource_id}

\* The Findings recorded for a control and a resource of an account.
FindingsOfKey(account_id, control_id, resource_id) ==
    {f \in FindingRows :
        /\ control_results[f].cloud_account_id = account_id
        /\ control_results[f].control_id = control_id
        /\ control_results[f].resource_id = resource_id}

\* C27: a Finding and its `detection` audit entry are written in one transaction: in
\* every committed state each persisted Finding has its detection entry, so the
\* Findings of a key are as many as its detection entries.
C27_FindingAndEntryAtomic ==
    \A f \in FindingRows :
        LET row == control_results[f] IN
        Cardinality(DetectionEntries(row.cloud_account_id, row.control_id, row.resource_id))
            = Cardinality(FindingsOfKey(row.cloud_account_id, row.control_id, row.resource_id))

\* The `scan` audit entries of a scan.
ScanEntries(S) ==
    {i \in DOMAIN audit_logs :
        audit_logs[i].event_type = "scan" /\ audit_logs[i].event_data.scan_id = S}

\* The `detection` entries of a key written while scan S ran (one request at a time).
DetectionEntriesOfScan(S, control_id, resource_id) ==
    {i \in DetectionEntries(scans[S].account_id, control_id, resource_id) :
        /\ audit_logs[i].timestamp >= scans[S].started_at
        /\ \A e \in ScanEntries(S) : audit_logs[i].timestamp <= audit_logs[e].timestamp}

\* C28: after a scan completed, the audit log holds exactly one `detection` entry per
\* Finding of the scan, with its control and resource, and exactly one `scan` entry,
\* whose event data carries the summary counts of the scan.
C28_OneDetectionEntryPerFinding ==
    \A S \in ScanIds :
        scans[S].status = "completed" =>
            /\ \A f \in FindingsOfScan(S) :
                    Cardinality(DetectionEntriesOfScan(S, control_results[f].control_id,
                                                       control_results[f].resource_id))
                        = Cardinality({g \in FindingsOfScan(S) :
                                /\ control_results[g].control_id = control_results[f].control_id
                                /\ control_results[g].resource_id = control_results[f].resource_id})
            /\ Cardinality(ScanEntries(S)) = 1
            /\ \A e \in ScanEntries(S) :
                    /\ audit_logs[e].event_data.controls_run = scans[S].summary.total_controls
                    /\ audit_logs[e].event_data.pass = scans[S].summary.pass
                    /\ audit_logs[e].event_data.fail = scans[S].summary.fail
                    /\ audit_logs[e].event_data.error = scans[S].summary.error
                    /\ audit_logs[e].event_data.total_findings = scans[S].summary.total_findings

\* C29: however a running scan and remediate_finding calls interleave, a
\* `remediation` audit entry of a Finding comes after a `detection` entry of the
\* Finding's account, control and resource.
C29_DetectionBeforeRemediation ==
    \A i \in DOMAIN audit_logs :
        (audit_logs[i].event_type = "remediation"
            /\ audit_logs[i].control_result_id \in FindingRows) =>
            LET row == control_results[audit_logs[i].control_result_id] IN
            \E j \in DetectionEntries(row.cloud_account_id, row.control_id, row.resource_id) :
                j < i

\* The `rollback` audit entries of a Finding.
RollbackEntries(finding_id) ==
    {i \in DOMAIN audit_logs :
        audit_logs[i].event_type = "rollback" /\ audit_logs[i].control_result_id = finding_id}

\* C30: the audit entry of a Finding transition is visible no later than the
\* transition: in every committed state a FIXED Finding has the `remediation` entry
\* of its executed remediation and a rolled_back Finding has a `rollback` entry.
C30_TransitionHasAuditEntry ==
    \A f \in FindingRows :
        /\ control_results[f].status = "FIXED" => ExecutedEntries(f) # {}
        /\ control_results[f].remediation_status = "rolled_back" => RollbackEntries(f) # {}

\* The elements of a sequence.
Range(seq) == {seq[i] : i \in 1..Len(seq)}

\* The registered controls of the provider of the account a scan is for.
RegisteredFor(S) == Range(ProviderControls(cloud_accounts[scans[S].account_id]))

\* C31: the controls a scan runs are the registered controls of the provider that
\* the control_ids filter names, each once; an empty filter selects all of them and
\* an id that names no registered control adds nothing.
C31_SelectedControlsAreIntersection ==
    \A S \in ScanIds :
        scans[S].selected =>
            /\ Range(scans[S].controls) =
                    IF scans[S].control_ids = {} THEN RegisteredFor(S)
                    ELSE RegisteredFor(S) \cap scans[S].control_ids
            /\ Len(scans[S].controls) = Cardinality(Range(scans[S].controls))

\* Scans of the AWS account: one with no filter and one whose filter names a
\* registered control and an unknown id.
C31_Witness ==
    /\ \E S \in ScanIds :
            /\ scans[S].selected /\ scans[S].control_ids = {}
            /\ Len(scans[S].controls) = Len(AWS_CONTROLS)
    /\ \E S \in ScanIds :
            /\ scans[S].selected /\ "AWS-XX-999" \in scans[S].control_ids
            /\ scans[S].controls = <<"AWS-SG-001">>

\* C32: a scan of an account whose credentials fail when the adapter is built does
\* not abort: barring a database failure it completes, and every selected control
\* has exactly one Finding, an ERROR.
C32_BadCredentialsGiveErrorFindings ==
    \A S \in ScanIds :
        (/\ ~cloud_accounts[scans[S].account_id].credentials_ok
         /\ scans[S].status # "running"
         /\ ~scans[S].db_failed) =>
            /\ scans[S].status = "completed"
            /\ \A k \in 1..Len(scans[S].controls) :
                    /\ Cardinality(FindingsOfControl(S, scans[S].controls[k])) = 1
                    /\ \A i \in FindingsOfControl(S, scans[S].controls[k]) :
                            control_results[i].status = "ERROR"

\* C33: all Findings of a scan carry one detected_at, the start time of the scan,
\* whenever each of them was persisted.
C33_DetectedAtIsScanStart ==
    \A f \in FindingRows :
        /\ control_results[f].detected_at = scans[control_results[f].scan_id].started_at
        /\ \A g \in FindingsOfScan(control_results[f].scan_id) :
                control_results[g].detected_at = control_results[f].detected_at

\* C34: no two store_evidence calls return the same object key, whatever the ids and
\* the times of the calls, so that no stored evidence object is replaced.
C34_EvidenceKeysUnique ==
    \A rsp \in Responses :
        (rsp.op = "store_evidence" /\ rsp.kind = "returned") => rsp.replaced = {}

\* Lines 65-88 on the summary alone: what one control adds, given what its detect did.
CountControl(summary, d) ==
    IF d.raised THEN [summary EXCEPT !.error = @ + 1]
    ELSE IF d.seeds = 0 THEN [summary EXCEPT !.pass = @ + 1]
    ELSE [summary EXCEPT !.fail = @ + d.seeds, !.total_findings = @ + d.seeds]

RECURSIVE CountControls(_, _)
CountControls(ds, summary) ==
    IF ds = <<>> THEN summary
    ELSE CountControls(Tail(ds), CountControl(summary, Head(ds)))

\* The detect outcomes of a scan, taken in the order p.
Reordered(ds, p) == [i \in 1..Len(ds) |-> ds[p[i]]]

\* C35: for the controls of a scan and what their detect calls gave, the summary the
\* scan returned is the one every order of execution of those controls gives
\* (database errors aside).
C35_SummaryOrderIndependent ==
    \A S \in ScanIds :
        (scans[S].status = "completed" /\ ~scans[S].db_failed) =>
            \A p \in Permutations(1..Len(scans[S].detected)) :
                CountControls(Reordered(scans[S].detected, p),
                              Summary(Len(scans[S].controls), 0, 0, 0, 0)) = scans[S].summary

C35_Witness ==
    \E S \in ScanIds :
        /\ scans[S].status = "completed" /\ ~scans[S].db_failed
        /\ Len(scans[S].detected) > 2
        /\ \E i, j \in 2..Len(scans[S].detected) :
                scans[S].detected[i].raised /\ scans[S].detected[j].seeds > 0

\* C36: once a scan_account call has ended, by returning or by raising, the account it
\* marked in_progress is success or failed; with no call running no account is
\* in_progress, also after a database commit failed.
C36_NeverLeftInProgress ==
    (\A h \in DOMAIN handlers : handlers[h].pc = "idle") =>
        \A a \in DOMAIN cloud_accounts :
            cloud_accounts[a].last_scan_status # "in_progress"

FindingsOfStatus(S, status) ==
    {i \in FindingsOfScan(S) : control_results[i].status = status}

\* C37: when a scan has just returned, its summary counts the Findings it persisted:
\* pass the PASS rows, error the ERROR rows, fail and total_findings the FAIL rows,
\* and pass + error is at most total_controls, also when a write failed on the way.
C37_SummaryAgreesWithFindings ==
    \A rsp \in Responses :
        (rsp.op = "scan" /\ rsp.kind = "returned") =>
            /\ rsp.summary.pass = Cardinality(FindingsOfStatus(rsp.scan_id, "PASS"))
            /\ rsp.summary.error = Cardinality(FindingsOfStatus(rsp.scan_id, "ERROR"))
            /\ rsp.summary.fail = Cardinality(FindingsOfStatus(rsp.scan_id, "FAIL"))
            /\ rsp.summary.total_findings = Cardinality(FindingsOfStatus(rsp.scan_id, "FAIL"))
            /\ rsp.summary.pass + rsp.summary.error <= rsp.summary.total_controls

\* C38: after a real remediate_finding call has ended, by returning or by raising, a
\* cloud mutation it applied goes with a Finding that is FIXED and carries rollback
\* data, also when the commit after the mutation failed.
C38_MutationImpliesFixedWithRollback ==
    \A rsp \in Responses :
        (/\ rsp.op = "remediate"
         /\ ~rsp.request.dry_run
         /\ cloud.mutations > rsp.began.mutations) =>
            /\ control_results[rsp.request.finding_id].status = "FIXED"
            /\ control_results[rsp.request.finding_id].rollback_data # NoneJson

\* C39: every audit entry the engines wrote for an account (detection, scan,
\* remediation, rollback) carries the organization of that account.
C39_AuditEntriesCarryOrganization ==
    \A i \in 1..Len(audit_logs) :
        audit_logs[i].cloud_account_id \in DOMAIN cloud_accounts =>
            audit_logs[i].organization_id =
                cloud_accounts[audit_logs[i].cloud_account_id].organization_id

\* C40: when the control's rollback reports failure, rollback_remediation returns
\* success = false, the Finding is as it was loaded (FIXED, executed, with its rollback
\* data and evidence_after), no audit entry was appended and the provider was not
\* touched, so the rollback is admitted again.
C40_FailedRollbackChangesNothing ==
    \A rsp \in Responses :
        (/\ rsp.op = "rollback" /\ rsp.kind = "returned"
         /\ ~Rollback(rsp.loaded.control_id, rsp.loaded.rollback_data).success) =>
            /\ ~rsp.success
            /\ control_results[rsp.request.finding_id] = rsp.loaded
            /\ rsp.loaded.status = "FIXED"
            /\ rsp.loaded.remediation_status = "executed"
            /\ Truthy(rsp.loaded.rollback_data)
            /\ rsp.loaded.evidence_after # NoneJson
            /\ Len(audit_logs) = rsp.began.audit_logs
            /\ cloud.mutations = rsp.began.mutations
            /\ RollbackAble(control_results[rsp.request.finding_id])

C40_Witness ==
    \E rsp \in Responses :
        /\ rsp.op = "rollback" /\ rsp.kind = "returned" /\ ~rsp.success
        /\ control_results[rsp.request.finding_id].status = "FIXED"
        /\ BucketBlocked(rsp.loaded.resource_id)
====
